---- MODULE Spec2Model ----
(***************************************************************************)
(* Model of the pwv_wrapper_service (src/main.go): the GET /fetch handler, *)
(* the validation of its two path parameters, the bounded invocation of    *)
(* the vault CLI (PWVCLICMD: child process, background wait goroutine,     *)
(* timer, select) and the classification of the outcome into an HTTP       *)
(* response and an audit log line.                                         *)
(*                                                                         *)
(* Go strings that the code inspects character by character (account name, *)
(* captured stdout/stderr) are sequences of one-character strings.  Strings *)
(* the code only compares or interpolates (safe token, safe names) are     *)
(* TLA+ strings.  Wall-clock values (start, elapsed) are not modelled.     *)
(***************************************************************************)
EXTENDS Integers, Sequences, FiniteSets, TLC

\* ------------------------------------------------------------------ bounds
MaxNameLen == 2      \* longest account_name a request carries
MaxOut == 2          \* most characters the child writes to each stream
MaxArrivals == 22    \* most requests that arrive at the limiter

\* -------------------------------------------------------- character sets
Digits == {"0", "1", "2", "3", "4", "5", "6", "7", "8", "9"}

Lower == {"a", "b", "c", "d", "e", "f", "g", "h", "i", "j", "k", "l", "m",
          "n", "o", "p", "q", "r", "s", "t", "u", "v", "w", "x", "y", "z"}

Upper == {"A", "B", "C", "D", "E", "F", "G", "H", "I", "J", "K", "L", "M",
          "N", "O", "P", "Q", "R", "S", "T", "U", "V", "W", "X", "Y", "Z"}

\* the class [0-9a-zA-Z-_] of the regular expression (Perl syntax: the "-"
\* after the range A-Z and before "_" is a literal)
ClassChars == Digits \cup Lower \cup Upper \cup {"-", "_"}

\* unicode.IsSpace, as used by strings.TrimSpace; "VT", "NEL" and "NBSP"
\* stand for U+000B, U+0085 and U+00A0
SpaceChars == {" ", "\t", "\n", "\r", "\f", "VT", "NEL", "NBSP"}

\* characters a request's account_name is drawn from
NameChars == {"a", "-", ";", "\n"}

\* characters the child writes to stdout and to stderr
OutChars == {"s", " "}

ErrChars == {"e"}

\* the byte a reader sees where a concurrent Write has grown the buffer but
\* not yet copied its data
TornByte == "NUL"

\* safe tokens a request carries
SafeTokens == {"managed", "unmanaged", "Managed", "root", ""}

\* exit codes of a child that exits by itself
ExitCodes == {0, 1, 2}

\* an unbuffered done channel
DoneCapUnbuffered == 1 - 1

\* capacity of the done channel
DoneCap == 1

RECURSIVE SeqsUpTo(_, _)
SeqsUpTo(S, n) ==
    IF n = 0 THEN {<<>>}
    ELSE LET shorter == SeqsUpTo(S, n - 1)
         IN  shorter \cup {Append(s, c) : s \in shorter, c \in S}

\* ------------------------------------------------------------- constants
StatusOK == 200

StatusBadRequest == 400

StatusFailedDependency == 424

MsgInvalidSafe == "Please specify a valid safe either \"managed\" or \"unmanaged\""

MsgInvalidAccount == "Please specify a valid account_name"

\* ------------------------------------------------------------ JSON values
Null == [tag |-> "null"]

Str(v) == [tag |-> "str", val |-> v]

\* ----------------------------------------------------------- error values
Nil == [kind |-> "nil"]

ErrTimeout == [kind |-> "error", text |-> "process killed as timeout reached"]

ErrNotStarted == [kind |-> "error", text |-> "exec: not started"]

ErrWait == [kind |-> "error", text |-> "wait: os error"]

\* *exec.ExitError carrying the syscall.WaitStatus ws
ExitError(ws) == [kind |-> "ExitError", ws |-> ws]

\* syscall.WaitStatus: exited with a code, or terminated by a signal
WaitStatus(exited, code) == [exited |-> exited, code |-> code]

\* WaitStatus.ExitStatus(): the exit code, -1 when the process did not exit
ExitStatus(ws) == IF ws.exited THEN ws.code ELSE -1

\* ProcessState.Success()
Success(ws) == ws.exited /\ ws.code = 0

\* --------------------------------------------------------- pure functions
\* length of the longest run of class characters of s starting at index i
RECURSIVE ClassRun(_, _)
ClassRun(s, i) ==
    IF i <= Len(s) /\ s[i] \in ClassChars THEN 1 + ClassRun(s, i + 1) ELSE 0

\* ^[0-9a-zA-Z-_]+ without the closing anchor
isValidAccount_nameUnanchored(s) == ClassRun(s, 1) >= 1

\* regexp.MustCompile(`^[0-9a-zA-Z-_]+$`).MatchString
isValidAccount_name(s) == ClassRun(s, 1) >= 1 /\ ClassRun(s, 1) = Len(s)

\* the switch over the safe token with a default that picks the managed safe
ResolveSafeDefaultManaged(safe, c) ==
    IF safe = "unmanaged" THEN c.PWVUnmanagedSafe ELSE c.PWVManagedSafe

\* the switch over the safe token with both cases reading the managed safe
ResolveSafeSameField(safe, c) ==
    IF safe \in {"managed", "unmanaged"} THEN c.PWVManagedSafe ELSE ""

\* the switch over the safe token: pwv_safe keeps its zero value "" when no
\* case matches
ResolveSafe(safe, c) ==
    IF safe = "managed" THEN c.PWVManagedSafe
    ELSE IF safe = "unmanaged" THEN c.PWVUnmanagedSafe
    ELSE ""

RECURSIVE TrimLeft(_)
TrimLeft(s) ==
    IF s # <<>> /\ Head(s) \in SpaceChars THEN TrimLeft(Tail(s)) ELSE s

RECURSIVE TrimRight(_)
TrimRight(s) ==
    IF s # <<>> /\ s[Len(s)] \in SpaceChars
    THEN TrimRight(SubSeq(s, 1, Len(s) - 1)) ELSE s

\* strings.TrimSpace
TrimSpace(s) == TrimRight(TrimLeft(s))

\* strings.Repeat
Repeat(c, n) == [i \in 1..n |-> c]

\* the argument vector of the vault CLI
pwv_args(pwv_appID, pwv_safe, account) ==
    << "GetPassword",
       "-p", <<"AppDescs.AppID=", pwv_appID>>,
       "-p", <<"Query=Safe=", pwv_safe, ";Folder=root;Object=", account>>,
       "-o", "Password" >>

\* the zero value of Result
ZeroResult == [ok |-> FALSE, stdout |-> <<>>, stderr |-> <<>>, exit_code |-> 0]

\* ------------------------------------------------------------------ state
VARIABLES
    cfg,           \* the Configuration loaded at startup (read-only)
    safe,          \* c.Param("safe") of the request
    account_name,  \* c.Param("account_name") of the request
    pc,            \* handler: "idle", "select", "responded", "panicked"
    calls,         \* calls of PWVCLICMD made for the request
    spawns,        \* child processes started for the request
    started,       \* cmd.Process # nil
    child,         \* "none", "running", "exited", "signaled"
    ws,            \* the child's wait status once it has terminated
    out_buf,       \* bytes.Buffer attached to the child's stdout
    err_buf,       \* bytes.Buffer attached to the child's stderr
    wait_pc,       \* wait goroutine: "none", "waiting", "sending", "finished"
    wait_err,      \* the value cmd.Wait() returned
    done,          \* the done channel (buffered)
    timer,         \* time.After: "none", "armed", "fired"
    killed,        \* cmd.Process.Kill(): "no", "ok", "failed"
    branch,        \* select clause taken: "none", "timer", "done"
    clauses,       \* select clauses run in the current invocation
    raced,         \* the buffers were read while a write could be going on
    r,             \* the handler's Result
    err,           \* the handler's err
    status_code,   \* status passed to c.JSON (0 before)
    result,        \* body passed to c.JSON
    responses,     \* calls of c.JSON made for the request
    log,           \* lines written through log.Printf / log.Println
    svc,           \* the process: "starting", "exited", "serving"
    conf_file,     \* config.yaml: "absent", "unreadable", "malformed", or
                   \* the Configuration it holds
    load_err,      \* main's err after loadConfig: TRUE when it is not nil
    template,      \* saveConfig of the template: "no", "written", "failed"
    arrived,       \* requests waiting at the limiter
    admitted,      \* requests inside the handler, outside PWVCLICMD
    invoking,      \* requests inside the handler, inside PWVCLICMD
    departed,      \* requests whose handler has returned
    time_outs      \* the time_out arguments PWVCLICMD has been called with

vars == << cfg, safe, account_name, pc, calls, spawns, started, child, ws,
           out_buf, err_buf, wait_pc, wait_err, done, timer, killed, branch,
           clauses, raced, r, err, status_code, result, responses, log,
           svc, conf_file, load_err, template, arrived, admitted, invoking, departed,
           time_outs >>

reqVars == << safe, account_name >>

procVars == << started, child, ws, out_buf, err_buf, wait_pc, wait_err, done,
               timer, killed >>

respVars == << r, err, status_code, result, responses >>

svcVars == << svc, conf_file, load_err, template, arrived, admitted, invoking, departed,
              time_outs >>

handlerVars == << safe, account_name, pc, calls, spawns, started, child, ws,
                  out_buf, err_buf, wait_pc, wait_err, done, timer, killed,
                  branch, clauses, raced, r, err, status_code, result,
                  responses, log >>

\* configurations the service can be serving with: each safe name may have
\* been left empty in config.yaml
Configs ==
    [ PWVManagedSafe : {"", "SafeM"},
      PWVUnmanagedSafe : {"", "SafeU"},
      PWVAppID : {"App"},
      PWVCLIPasswordSDK_CMD : {"clipasswordsdk"},
      PWVCLIPasswordSDK_CMD_timeout : {20000},
      RouterSocket : {3000} ]

\* config.yaml holding the Configuration c
FileWith(c) == [state |-> "present", cfg |-> c]

NoBody == [result |-> Null, error |-> Null, stderr |-> Null]

\* the handler's variables before a request is handled
RequestInit ==
    /\ safe = ""
    /\ account_name = <<>>
    /\ pc = "idle"
    /\ calls = 0
    /\ spawns = 0
    /\ started = FALSE
    /\ child = "none"
    /\ ws = WaitStatus(FALSE, 0)
    /\ out_buf = <<>>
    /\ err_buf = <<>>
    /\ wait_pc = "none"
    /\ wait_err = Nil
    /\ done = <<>>
    /\ timer = "none"
    /\ killed = "no"
    /\ branch = "none"
    /\ clauses = 0
    /\ raced = FALSE
    /\ r = ZeroResult
    /\ err = Nil
    /\ status_code = 0
    /\ result = NoBody
    /\ responses = 0
    /\ log = <<>>

\* a serving process and one request about to enter the handler
Init ==
    /\ cfg \in Configs
    /\ RequestInit
    /\ svc = "serving"
    /\ conf_file = FileWith(cfg)
    /\ load_err = FALSE
    /\ template = "no"
    /\ arrived = 0
    /\ admitted = 0
    /\ invoking = 0
    /\ departed = 0
    /\ time_outs = {}

\* ---------------------------------------------------------------- handler
\* the handler's mapping with the return code compared against 1
ClassifyExitAbove1(rr, e) ==
    IF e # Nil
    THEN [ status |-> StatusFailedDependency,
           body |-> [ result |-> Str(rr.stdout),
                      error |-> [tag |-> "notrun", err |-> e],
                      stderr |-> Str(rr.stderr) ] ]
    ELSE IF rr.exit_code > 1
    THEN [ status |-> StatusFailedDependency,
           body |-> [ result |-> Str(rr.stdout),
                      error |-> [tag |-> "returncode", code |-> rr.exit_code],
                      stderr |-> Str(rr.stderr) ] ]
    ELSE [ status |-> StatusOK,
           body |-> [ result |-> Str(rr.stdout),
                      error |-> Null,
                      stderr |-> Str(rr.stderr) ] ]

\* the handler's mapping with the success body carrying the stderr text in
\* both fields
ClassifyStderrAsResult(rr, e) ==
    IF e # Nil
    THEN [ status |-> StatusFailedDependency,
           body |-> [ result |-> Str(rr.stdout),
                      error |-> [tag |-> "notrun", err |-> e],
                      stderr |-> Str(rr.stderr) ] ]
    ELSE IF rr.exit_code > 0
    THEN [ status |-> StatusFailedDependency,
           body |-> [ result |-> Str(rr.stdout),
                      error |-> [tag |-> "returncode", code |-> rr.exit_code],
                      stderr |-> Str(rr.stderr) ] ]
    ELSE [ status |-> StatusOK,
           body |-> [ result |-> Str(rr.stderr),
                      error |-> Null,
                      stderr |-> Str(rr.stderr) ] ]

\* the handler's mapping of PWVCLICMD's return values to status and body
Classify(rr, e) ==
    IF e # Nil
    THEN [ status |-> StatusFailedDependency,
           body |-> [ result |-> Str(rr.stdout),
                      error |-> [tag |-> "notrun", err |-> e],
                      stderr |-> Str(rr.stderr) ] ]
    ELSE IF rr.exit_code > 0
    THEN [ status |-> StatusFailedDependency,
           body |-> [ result |-> Str(rr.stdout),
                      error |-> [tag |-> "returncode", code |-> rr.exit_code],
                      stderr |-> Str(rr.stderr) ] ]
    ELSE [ status |-> StatusOK,
           body |-> [ result |-> Str(rr.stdout),
                      error |-> Null,
                      stderr |-> Str(rr.stderr) ] ]

\* the line written at the Response label
AuditLine(rr, e) ==
    IF rr.ok
    THEN [ kind |-> "audit", verdict |-> "SUCCESS", exit_code |-> rr.exit_code,
           stdout |-> Repeat("*", Len(rr.stdout)), stderr |-> rr.stderr,
           error |-> Nil ]
    ELSE [ kind |-> "audit", verdict |-> "FAILED", exit_code |-> rr.exit_code,
           stdout |-> rr.stdout, stderr |-> rr.stderr, error |-> e ]

\* the Response label: audit line, then c.JSON
Response(rr, e, code, body) ==
    /\ r' = rr
    /\ err' = e
    /\ status_code' = code
    /\ result' = body
    /\ responses' = responses + 1
    /\ pc' = "responded"

\* PWVCLICMD from its entry to the select: the Exec line, cmd.Start() with
\* its error dropped, the done channel, the wait goroutine, the timer
Invoke(pwv_safe, account) ==
    /\ calls' = calls + 1
    /\ \E ok \in BOOLEAN :
          /\ started' = ok
          /\ child' = IF ok THEN "running" ELSE "none"
          /\ spawns' = IF ok THEN spawns + 1 ELSE spawns
    /\ ws' = WaitStatus(FALSE, 0)
    /\ out_buf' = <<>>
    /\ err_buf' = <<>>
    /\ done' = <<>>
    /\ wait_pc' = "waiting"
    /\ wait_err' = Nil
    /\ timer' = "armed"
    /\ killed' = "no"
    /\ branch' = "none"
    /\ clauses' = 0
    /\ raced' = FALSE
    /\ log' = Append(log, [ kind |-> "exec",
                            args |-> << cfg.PWVCLIPasswordSDK_CMD >> \o
                                     pwv_args(cfg.PWVAppID, pwv_safe, account) ])

\* a request whose parameters fail validation: 400, no invocation
HandlerReject ==
    /\ pc = "idle"
    /\ \E s \in SafeTokens, a \in SeqsUpTo(NameChars, MaxNameLen) :
          LET pwv_safe == ResolveSafe(s, cfg)
              msg == IF pwv_safe = "" THEN MsgInvalidSafe ELSE MsgInvalidAccount
          IN  /\ pwv_safe = "" \/ ~isValidAccount_name(a)
              /\ safe' = s
              /\ account_name' = a
              /\ log' = log \o << [kind |-> "msg", text |-> msg],
                                  AuditLine(r, err) >>
              /\ Response(r, err, StatusBadRequest,
                          [result |-> Null, error |-> Str(msg), stderr |-> Null])
    /\ UNCHANGED << cfg, svcVars, calls, spawns, procVars, branch, clauses, raced >>

\* a request whose parameters pass validation: PWVCLICMD is called and the
\* handler blocks in its select
HandlerInvoke ==
    /\ pc = "idle"
    /\ \E s \in SafeTokens, a \in SeqsUpTo(NameChars, MaxNameLen) :
          LET pwv_safe == ResolveSafe(s, cfg)
          IN  /\ pwv_safe # ""
              /\ isValidAccount_name(a)
              /\ safe' = s
              /\ account_name' = a
              /\ Invoke(pwv_safe, a)
    /\ pc' = "select"
    /\ UNCHANGED << cfg, svcVars, respVars >>

\* ----------------------------------------------------- child and goroutines
\* the child writes a character to its stdout, copied into out_buf
ChildWriteStdout ==
    /\ child = "running"
    /\ Len(out_buf) < MaxOut
    /\ \E c \in OutChars : out_buf' = Append(out_buf, c)
    /\ UNCHANGED << cfg, svcVars, reqVars, pc, calls, spawns, started, child, ws,
                    err_buf, wait_pc, wait_err, done, timer, killed, branch, clauses, raced,
                    respVars, log >>

\* the child writes a character to its stderr, copied into err_buf
ChildWriteStderr ==
    /\ child = "running"
    /\ Len(err_buf) < MaxOut
    /\ \E c \in ErrChars : err_buf' = Append(err_buf, c)
    /\ UNCHANGED << cfg, svcVars, reqVars, pc, calls, spawns, started, child, ws,
                    out_buf, wait_pc, wait_err, done, timer, killed, branch, clauses, raced,
                    respVars, log >>

\* the child exits by itself
ChildExit ==
    /\ child = "running"
    /\ \E code \in ExitCodes : ws' = WaitStatus(TRUE, code)
    /\ child' = "exited"
    /\ UNCHANGED << cfg, svcVars, reqVars, pc, calls, spawns, started, out_buf, err_buf,
                    wait_pc, wait_err, done, timer, killed, branch, clauses, raced, respVars,
                    log >>

\* the child is terminated by a signal nobody in this program sent
ChildSignaled ==
    /\ child = "running"
    /\ ws' = WaitStatus(FALSE, 0)
    /\ child' = "signaled"
    /\ UNCHANGED << cfg, svcVars, reqVars, pc, calls, spawns, started, out_buf, err_buf,
                    wait_pc, wait_err, done, timer, killed, branch, clauses, raced, respVars,
                    log >>

\* cmd.Wait() returns in the wait goroutine: at once when the command was
\* never started, else once the child has terminated and its output is
\* copied; the process state decides between nil and *exec.ExitError, and
\* the operating system may report an error of its own instead
WaitReturns ==
    /\ wait_pc = "waiting"
    /\ IF ~started
       THEN wait_err' = ErrNotStarted
       ELSE /\ child \in {"exited", "signaled"}
            /\ wait_err' \in {IF Success(ws) THEN Nil ELSE ExitError(ws), ErrWait}
    /\ wait_pc' = "sending"
    /\ UNCHANGED << cfg, svcVars, reqVars, pc, calls, spawns, started, child, ws,
                    out_buf, err_buf, done, timer, killed, branch, clauses, raced, respVars,
                    log >>

\* done <- cmd.Wait(): the send needs room in the channel
DoneSend ==
    /\ wait_pc = "sending"
    /\ Len(done) < DoneCap
    /\ done' = Append(done, wait_err)
    /\ wait_pc' = "finished"
    /\ UNCHANGED << cfg, svcVars, reqVars, pc, calls, spawns, started, child, ws,
                    out_buf, err_buf, wait_err, timer, killed, branch, clauses, raced,
                    respVars, log >>

\* the timer of time.After delivers
TimerFire ==
    /\ timer = "armed"
    /\ timer' = "fired"
    /\ UNCHANGED << cfg, svcVars, reqVars, pc, calls, spawns, started, child, ws,
                    out_buf, err_buf, wait_pc, wait_err, done, killed, branch, clauses, raced,
                    respVars, log >>

\* ----------------------------------------------------------------- select
\* what out_buf.String() / err_buf.String() can return: the content, or,
\* while the goroutine copying the child's output may be inside Write, the
\* content grown by a byte that is not copied yet
BufferString(buf, racing) ==
    IF racing THEN {buf, Append(buf, TornByte)} ELSE {buf}

\* cmd.Wait() has not returned and the child is alive: the goroutines that
\* copy its output into out_buf and err_buf may be inside Write
CopyingMayWrite == wait_pc = "waiting" /\ child = "running"

\* outcomes of cmd.Process.Kill(): it succeeds while the process is not
\* reaped, fails once Wait has reaped it; after an operating system error
\* of Wait either is possible
KillFails ==
    IF wait_pc = "waiting" THEN {FALSE}
    ELSE IF wait_err = ErrWait THEN BOOLEAN
    ELSE {TRUE}

\* the error built from a failed Kill
ErrKill == [kind |-> "error", text |-> "failed to kill: os: process already finished"]

\* the timer clause returning the kill error when the kill failed
TimerBranchErrKill(kill_fails) == IF kill_fails THEN ErrKill ELSE ErrTimeout

\* the value the timer clause leaves in the named result err: the kill
\* error lives in the scope of the if statement only
TimerBranchErr(kill_fails) == ErrTimeout

\* the value the done clause leaves in the named result err: the clause
\* declares its own err, so the named result keeps nil
DoneBranchErr(e) == Nil

\* r.ok set whatever the wait goroutine delivered
DoneBranchOkAlways(e) == TRUE

\* r.ok after the done clause: true only when cmd.Wait() returned nil
DoneBranchOk(e) == e = Nil

\* r.exit_code after the done clause
DoneBranchExitCode(e) ==
    IF e.kind = "ExitError" THEN ExitStatus(e.ws) ELSE 0

\* the rest of PWVCLICMD and of the handler once a select clause has run
Finish(rr, e) ==
    LET c == Classify(rr, e)
    IN  /\ log' = Append(log, AuditLine(rr, e))
        /\ Response(rr, e, c.status, c.body)

\* the timer clause without the call of Kill
SelectTimerNoKill ==
    /\ pc = "select"
    /\ timer = "fired"
    /\ branch' = "timer"
    /\ clauses' = clauses + 1
    /\ \E so \in BufferString(out_buf, CopyingMayWrite),
          se \in BufferString(err_buf, CopyingMayWrite) :
          /\ raced' = CopyingMayWrite
          /\ Finish([ ok |-> FALSE,
                      stdout |-> TrimSpace(so),
                      stderr |-> TrimSpace(se),
                      exit_code |-> 0 ],
                    ErrTimeout)
    /\ UNCHANGED << cfg, svcVars, reqVars, calls, spawns, started, child, ws,
                    killed, out_buf, err_buf, wait_pc, wait_err, done, timer >>

\* the timer clause collecting the exit status of the child it has killed
SelectTimerCollects ==
    /\ pc = "select"
    /\ timer = "fired"
    /\ branch' = "timer"
    /\ clauses' = clauses + 1
    /\ IF ~started
       THEN /\ pc' = "panicked"
            /\ UNCHANGED << child, ws, killed, raced, respVars, log >>
       ELSE \E kill_fails \in KillFails,
               so \in BufferString(out_buf, CopyingMayWrite),
               se \in BufferString(err_buf, CopyingMayWrite) :
               /\ raced' = CopyingMayWrite
               /\ killed' = IF kill_fails THEN "failed" ELSE "ok"
               /\ child' = IF ~kill_fails /\ child = "running"
                           THEN "signaled" ELSE child
               /\ ws' = IF ~kill_fails /\ child = "running"
                        THEN WaitStatus(FALSE, 0) ELSE ws
               /\ Finish([ ok |-> FALSE,
                           stdout |-> TrimSpace(so),
                           stderr |-> TrimSpace(se),
                           exit_code |-> IF child' \in {"exited", "signaled"}
                                         THEN ExitStatus(ws') ELSE 0 ],
                         TimerBranchErr(kill_fails))
    /\ UNCHANGED << cfg, svcVars, reqVars, calls, spawns, started, out_buf,
                    err_buf, wait_pc, wait_err, done, timer >>

\* the timer clause of the select, and what follows it up to the response
SelectTimer ==
    /\ pc = "select"
    /\ timer = "fired"
    /\ branch' = "timer"
    /\ clauses' = clauses + 1
    /\ IF ~started
       THEN \* cmd.Process is nil: Kill dereferences it and the handler panics
            /\ pc' = "panicked"
            /\ UNCHANGED << child, ws, killed, raced, respVars, log >>
       ELSE \E kill_fails \in KillFails,
               so \in BufferString(out_buf, wait_pc = "waiting" /\ child = "running"),
               se \in BufferString(err_buf, wait_pc = "waiting" /\ child = "running") :
               /\ raced' = CopyingMayWrite
               /\ killed' = IF kill_fails THEN "failed" ELSE "ok"
               /\ child' = IF ~kill_fails /\ child = "running"
                           THEN "signaled" ELSE child
               /\ ws' = IF ~kill_fails /\ child = "running"
                        THEN WaitStatus(FALSE, 0) ELSE ws
               /\ Finish([ ok |-> FALSE,
                           stdout |-> TrimSpace(so),
                           stderr |-> TrimSpace(se),
                           exit_code |-> 0 ],
                         TimerBranchErr(kill_fails))
    /\ UNCHANGED << cfg, svcVars, reqVars, calls, spawns, started, out_buf, err_buf,
                    wait_pc, wait_err, done, timer >>

\* the done clause with a handler that calls PWVCLICMD again after a failure
SelectDoneRetry ==
    /\ pc = "select"
    /\ done # <<>>
    /\ LET e == Head(done)
       IN  IF e # Nil /\ calls < 2
           THEN /\ Invoke(ResolveSafe(safe, cfg), account_name)
                /\ UNCHANGED << pc, respVars >>
           ELSE /\ done' = Tail(done)
                /\ branch' = "done"
                /\ clauses' = clauses + 1
                /\ raced' = raced
                /\ Finish([ ok |-> DoneBranchOk(e),
                            stdout |-> TrimSpace(out_buf),
                            stderr |-> TrimSpace(err_buf),
                            exit_code |-> DoneBranchExitCode(e) ],
                          DoneBranchErr(e))
                /\ UNCHANGED << calls, spawns, started, child, ws, out_buf,
                                err_buf, wait_pc, wait_err, timer, killed >>
    /\ UNCHANGED << cfg, svcVars, reqVars >>

\* the done clause of the select, and what follows it up to the response
SelectDone ==
    /\ pc = "select"
    /\ done # <<>>
    /\ LET e == Head(done)
       IN  Finish([ ok |-> DoneBranchOk(e),
                    stdout |-> TrimSpace(out_buf),
                    stderr |-> TrimSpace(err_buf),
                    exit_code |-> DoneBranchExitCode(e) ],
                  DoneBranchErr(e))
    /\ done' = Tail(done)
    /\ branch' = "done"
    /\ clauses' = clauses + 1
    /\ raced' = raced
    /\ UNCHANGED << cfg, svcVars, reqVars, calls, spawns, started, child, ws, out_buf,
                    err_buf, wait_pc, wait_err, timer, killed >>

\* ---------------------------------------------------------- specification
Next ==
    \/ HandlerReject
    \/ HandlerInvoke
    \/ ChildWriteStdout
    \/ ChildWriteStderr
    \/ ChildExit
    \/ ChildSignaled
    \/ WaitReturns
    \/ DoneSend
    \/ TimerFire
    \/ SelectTimer
    \/ SelectDone

Spec == Init /\ [][Next]_vars

\* the scheduler runs the wait goroutine whenever it can take a step: Wait
\* returns once the child has terminated, and a send that has room completes
SpecFair == Spec /\ WF_vars(WaitReturns) /\ WF_vars(DoneSend)

\* ---------------------------------------------------- startup and limiter
\* a limiter set up for one request more
MaxAllowedPlusOne == 20 + 1

\* the argument of limit.MaxAllowed
MaxAllowed == 20

\* the zero value of Configuration
ZeroConfiguration ==
    [ PWVManagedSafe |-> "",
      PWVUnmanagedSafe |-> "",
      PWVAppID |-> "",
      PWVCLIPasswordSDK_CMD |-> "",
      PWVCLIPasswordSDK_CMD_timeout |-> 0,
      RouterSocket |-> 0 ]

\* the template
createMockConfig ==
    [ PWVManagedSafe |-> "",
      PWVUnmanagedSafe |-> "",
      PWVAppID |-> "",
      PWVCLIPasswordSDK_CMD |-> "",
      PWVCLIPasswordSDK_CMD_timeout |-> 20000,
      RouterSocket |-> 3000 ]

\* what a readable config.yaml may hold when the process starts
FileConfigs ==
    [ PWVManagedSafe : {"SafeM"},
      PWVUnmanagedSafe : {"SafeU"},
      PWVAppID : {"App"},
      PWVCLIPasswordSDK_CMD : {"clipasswordsdk"},
      PWVCLIPasswordSDK_CMD_timeout : {0, 1, 20000},
      RouterSocket : {0, 3000} ]

\* config.yaml when the process starts
FileStates ==
    {[state |-> "absent"], [state |-> "unreadable"], [state |-> "malformed"]}
        \cup {FileWith(c) : c \in FileConfigs}

\* loadConfig: the Configuration read, or the zero value and an error
loadConfig(f) ==
    IF f.state = "present"
    THEN [c |-> f.cfg, failed |-> FALSE]
    ELSE [c |-> ZeroConfiguration, failed |-> TRUE]

\* the two checks of main with the time-out check left out
ConfigValidSocketOnly(c) == c.RouterSocket # 0

\* the two checks of main on the loaded configuration
ConfigValid(c) == c.RouterSocket # 0 /\ c.PWVCLIPasswordSDK_CMD_timeout # 0

\* a limiter that admits one request more than its argument
LimiterHasRoomOffByOne(n) == n <= MaxAllowed

\* limit.MaxAllowed(20): a request is admitted while fewer than 20 hold a
\* slot, and waits otherwise
LimiterHasRoom(n) == n < MaxAllowed

\* main when loadConfig fails: the template is saved, which may fail too,
\* and the process exits through log.Fatal
MainLoadFails ==
    /\ svc = "starting"
    /\ loadConfig(conf_file).failed
    /\ load_err' = TRUE
    /\ \E saved \in BOOLEAN :
          /\ template' = IF saved THEN "written" ELSE "failed"
          /\ conf_file' = IF saved THEN FileWith(createMockConfig) ELSE conf_file
    /\ svc' = "exited"
    /\ UNCHANGED << cfg, handlerVars, arrived, admitted, invoking, departed,
                    time_outs >>

\* main when the loaded configuration has a zero socket or time-out: the
\* process exits through log.Fatal
MainConfigInvalid ==
    /\ svc = "starting"
    /\ ~loadConfig(conf_file).failed
    /\ ~ConfigValid(loadConfig(conf_file).c)
    /\ cfg' = loadConfig(conf_file).c
    /\ svc' = "exited"
    /\ UNCHANGED << handlerVars, conf_file, load_err, template, arrived,
                    admitted, invoking, departed, time_outs >>

\* main when the loaded configuration passes both checks: the router is set
\* up and the server listens
MainServes ==
    /\ svc = "starting"
    /\ ~loadConfig(conf_file).failed
    /\ ConfigValid(loadConfig(conf_file).c)
    /\ cfg' = loadConfig(conf_file).c
    /\ svc' = "serving"
    /\ UNCHANGED << handlerVars, conf_file, load_err, template, arrived,
                    admitted, invoking, departed, time_outs >>

\* a request for the route reaches the limiter
Arrive ==
    /\ svc = "serving"
    /\ arrived + admitted + invoking + departed < MaxArrivals
    /\ arrived' = arrived + 1
    /\ UNCHANGED << cfg, handlerVars, svc, conf_file, load_err, template,
                    admitted, invoking, departed, time_outs >>

\* the limiter lets a waiting request into the handler
Acquire ==
    /\ arrived > 0
    /\ LimiterHasRoom(admitted + invoking)
    /\ arrived' = arrived - 1
    /\ admitted' = admitted + 1
    /\ UNCHANGED << cfg, handlerVars, svc, conf_file, load_err, template,
                    invoking, departed, time_outs >>

\* a handler rejects its request and returns; its slot is released
HandlerRejects ==
    /\ admitted > 0
    /\ admitted' = admitted - 1
    /\ departed' = departed + 1
    /\ UNCHANGED << cfg, handlerVars, svc, conf_file, load_err, template,
                    arrived, invoking, time_outs >>

\* a handler calls PWVCLICMD with the configured time-out
HandlerCalls ==
    /\ admitted > 0
    /\ admitted' = admitted - 1
    /\ invoking' = invoking + 1
    /\ time_outs' = time_outs \cup {cfg.PWVCLIPasswordSDK_CMD_timeout}
    /\ UNCHANGED << cfg, handlerVars, svc, conf_file, load_err, template,
                    arrived, departed >>

\* PWVCLICMD returns or panics, the handler ends; its slot is released
HandlerReturns ==
    /\ invoking > 0
    /\ invoking' = invoking - 1
    /\ departed' = departed + 1
    /\ UNCHANGED << cfg, handlerVars, svc, conf_file, load_err, template,
                    arrived, admitted, time_outs >>

\* the process is started with some config.yaml, or none
InitService ==
    /\ cfg = ZeroConfiguration
    /\ RequestInit
    /\ svc = "starting"
    /\ conf_file \in FileStates
    /\ load_err = FALSE
    /\ template = "no"
    /\ arrived = 0
    /\ admitted = 0
    /\ invoking = 0
    /\ departed = 0
    /\ time_outs = {}

NextService ==
    \/ MainLoadFails
    \/ MainConfigInvalid
    \/ MainServes
    \/ Arrive
    \/ Acquire
    \/ HandlerRejects
    \/ HandlerCalls
    \/ HandlerReturns

SpecService == InitService /\ [][NextService]_vars

TypeOK ==
    /\ pc \in {"idle", "select", "responded", "panicked"}
    /\ child \in {"none", "running", "exited", "signaled"}
    /\ wait_pc \in {"none", "waiting", "sending", "finished"}
    /\ timer \in {"none", "armed", "fired"}
    /\ killed \in {"no", "ok", "failed"}
    /\ branch \in {"none", "timer", "done"}
    /\ Len(done) <= DoneCap
    /\ status_code \in {0, StatusOK, StatusBadRequest, StatusFailedDependency}

\* ------------------------------------------------------------- properties
\* the request's account_name is empty or has a character outside the class
BadAccount_name ==
    \/ account_name = <<>>
    \/ \E i \in DOMAIN account_name : account_name[i] \notin ClassChars

\* C1: a request whose account_name is empty or contains a character outside
\* [0-9a-zA-Z_-] is answered 400, and PWVCLICMD is never called for it and
\* no child process is started.
C1_BadAccountRejected ==
    (pc # "idle" /\ BadAccount_name) =>
        /\ pc = "responded"
        /\ status_code = StatusBadRequest
        /\ responses = 1
        /\ calls = 0
        /\ spawns = 0
        /\ child = "none"

\* a request with a resolvable safe and the account name "a;" was answered 400
C1_Witness ==
    /\ pc = "responded"
    /\ safe = "managed"
    /\ cfg.PWVManagedSafe # ""
    /\ account_name = <<"a", ";">>
    /\ status_code = StatusBadRequest
    /\ result.error = Str(MsgInvalidAccount)

\* C2: a request whose safe token is not exactly "managed" or "unmanaged"
\* (the empty token included) is rejected: answered 400 with result = null
\* and stderr = null, and the process layer is never invoked.
C2_BadSafeRejected ==
    (pc # "idle" /\ safe \notin {"managed", "unmanaged"}) =>
        /\ pc = "responded"
        /\ status_code = StatusBadRequest
        /\ result.result = Null
        /\ result.stderr = Null
        /\ calls = 0
        /\ spawns = 0
        /\ child = "none"

\* a request with the safe token "root" and a valid account name was
\* answered 400 by a service whose two safes are configured
C2_Witness ==
    /\ pc = "responded"
    /\ safe = "root"
    /\ account_name = <<"a">>
    /\ cfg.PWVManagedSafe # ""
    /\ cfg.PWVUnmanagedSafe # ""
    /\ status_code = StatusBadRequest

\* C3: no log line written while handling a request shows the literal
\* captured stdout, whatever the outcome: what the audit line shows for
\* stdout is the run of "*" of the same length.
C3_StdoutNeverLogged ==
    \A i \in DOMAIN log :
        log[i].kind = "audit" =>
            /\ log[i].stdout = Repeat("*", Len(r.stdout))
            /\ r.stdout # <<>> => log[i].stdout # r.stdout

\* C4: when the child could not be started, or waiting on it reported an
\* error that is not an exit status, the request is answered 424 with a
\* non-null error, never 200.
C4_SpawnOrWaitErrorIs424 ==
    (/\ pc = "responded"
     /\ calls > 0
     /\ \/ ~started
        \/ branch = "done" /\ wait_err = ErrWait) =>
        /\ status_code = StatusFailedDependency
        /\ status_code # StatusOK
        /\ result.error # Null

\* C5: when the timer clause is taken (the timer fired before the completion
\* was received), the invocation returns a non-nil error with ok = false and
\* the request is answered 424 with result = the stdout the invocation
\* captured.
C5_TimeoutIs424 ==
    branch = "timer" =>
        /\ pc = "responded"
        /\ err # Nil
        /\ ~r.ok
        /\ status_code = StatusFailedDependency
        /\ result.result = Str(r.stdout)

\* C6: when the wait reports that the child exited with a code > 0 and the
\* done clause is taken, the request is answered 424 with an error message
\* carrying that code, result = the trimmed captured stdout and stderr = the
\* trimmed captured stderr.
C6_NonZeroExitIs424 ==
    (/\ pc = "responded"
     /\ branch = "done"
     /\ wait_err.kind = "ExitError"
     /\ wait_err.ws.exited
     /\ wait_err.ws.code > 0) =>
        /\ status_code = StatusFailedDependency
        /\ result.error = [tag |-> "returncode", code |-> ws.code]
        /\ result.result = Str(TrimSpace(out_buf))
        /\ result.stderr = Str(TrimSpace(err_buf))

\* a child that wrote " s" and "e" and exited with code 1 was answered 424
C6_Witness ==
    /\ pc = "responded"
    /\ branch = "done"
    /\ child = "exited"
    /\ ws.code = 1
    /\ wait_err = ExitError(ws)
    /\ out_buf = <<" ", "s">>
    /\ err_buf = <<"e">>
    /\ status_code = StatusFailedDependency
    /\ result.result = Str(<<"s">>)

\* C7: when the invocation outcome has ok = true and exit_code = 0, the
\* request is answered 200 with error = null, result = the trimmed captured
\* stdout and stderr = the trimmed captured stderr.
C7_SuccessIs200 ==
    (pc = "responded" /\ r.ok /\ r.exit_code = 0) =>
        /\ status_code = StatusOK
        /\ result.error = Null
        /\ result.result = Str(TrimSpace(out_buf))
        /\ result.stderr = Str(TrimSpace(err_buf))

\* a child that wrote "s " and "e" and exited with code 0 was answered 200
C7_Witness ==
    /\ pc = "responded"
    /\ r.ok
    /\ r.exit_code = 0
    /\ child = "exited"
    /\ out_buf = <<"s", " ">>
    /\ err_buf = <<"e">>
    /\ status_code = StatusOK
    /\ result.result = Str(<<"s">>)

\* the safe token is valid and the safe name configured for it is empty
EmptyConfiguredSafe ==
    \/ safe = "managed" /\ cfg.PWVManagedSafe = ""
    \/ safe = "unmanaged" /\ cfg.PWVUnmanagedSafe = ""

\* C8: a request whose safe token is "managed" or "unmanaged" while the
\* safe name configured for it is empty is answered 400 with the message of
\* an unknown safe token, result = null and stderr = null, and no process
\* is started.
C8_EmptyConfiguredSafeRejected ==
    (pc # "idle" /\ EmptyConfiguredSafe) =>
        /\ pc = "responded"
        /\ status_code = StatusBadRequest
        /\ result = [result |-> Null, error |-> Str(MsgInvalidSafe),
                     stderr |-> Null]
        /\ calls = 0
        /\ spawns = 0
        /\ child = "none"

\* a request for the unmanaged safe with a valid account name was answered
\* 400 by a service that has only the managed safe configured
C8_Witness ==
    /\ pc = "responded"
    /\ safe = "unmanaged"
    /\ cfg.PWVUnmanagedSafe = ""
    /\ cfg.PWVManagedSafe # ""
    /\ account_name = <<"a">>
    /\ status_code = StatusBadRequest

\* C9: a request triggers at most one call of PWVCLICMD and a call starts
\* at most one child process; no outcome leads to another invocation.
C9_AtMostOneInvocation ==
    /\ calls <= 1
    /\ spawns <= calls
    /\ pc \in {"idle"} => calls = 0

\* a request whose child exited with code 2 was answered after one call
\* and one child
C9_Witness ==
    /\ pc = "responded"
    /\ branch = "done"
    /\ child = "exited"
    /\ ws.code = 2
    /\ wait_err = ExitError(ws)
    /\ calls = 1
    /\ spawns = 1

\* C11: every Result PWVCLICMD returns satisfies: ok = true implies that the
\* returned error is nil and exit_code = 0; and a Result returned from the
\* timer clause (whether the kill failed or not) or after a failed start of
\* the command has ok = false.
C11_OkImpliesNoFailure ==
    (pc = "responded" /\ calls > 0) =>
        /\ r.ok => (err = Nil /\ r.exit_code = 0)
        /\ (branch = "timer" \/ ~started) => ~r.ok

\* PWVCLICMD returned after a failed start through the done clause, which
\* received "exec: not started"
C11_Witness ==
    /\ pc = "responded"
    /\ calls = 1
    /\ ~started
    /\ branch = "done"
    /\ wait_err = ErrNotStarted
    /\ ~r.ok

\* C12: at every moment at most 20 requests are inside the /fetch handler,
\* however many arrive.
C12_AtMost20InFlight == admitted + invoking <= 20

\* twenty requests are inside the handler and more are waiting
C12_Witness ==
    /\ admitted + invoking = 20
    /\ invoking > 0
    /\ arrived = 2

\* C13 as stated: the service serves only with a usable configuration: when
\* config.yaml cannot be loaded a template is written and the process exits
\* without serving; when the loaded time-out or socket is 0 the process
\* exits without serving; every call of PWVCLICMD receives time_out > 0.
C13_UsableConfigOrTemplate ==
    /\ (svc # "starting" /\ load_err) =>
          (svc = "exited" /\ template = "written")
    /\ (svc # "starting" /\ ~load_err
          /\ (cfg.PWVCLIPasswordSDK_CMD_timeout = 0 \/ cfg.RouterSocket = 0)) =>
          svc = "exited"
    /\ svc # "serving" => arrived + admitted + invoking + departed = 0
    /\ \A t \in time_outs : t > 0

\* C13 as amended: as C13, except that the template is written unless
\* writing it fails; the process exits without serving in both cases.
C13_UsableConfig ==
    /\ (svc # "starting" /\ load_err) =>
          /\ svc = "exited"
          /\ template \in {"written", "failed"}
          /\ template = "written" => conf_file = FileWith(createMockConfig)
    /\ (svc # "starting" /\ ~load_err
          /\ (cfg.PWVCLIPasswordSDK_CMD_timeout = 0 \/ cfg.RouterSocket = 0)) =>
          svc = "exited"
    /\ svc # "serving" => arrived + admitted + invoking + departed = 0
    /\ \A t \in time_outs : t > 0

\* a service loaded with time-out 1 has called PWVCLICMD
C13_Witness ==
    /\ svc = "serving"
    /\ cfg.PWVCLIPasswordSDK_CMD_timeout = 1
    /\ time_outs = {1}
    /\ invoking > 0

\* C14: when the completion is received before the timer fires, no armed
\* timer of the finished invocation remains once PWVCLICMD has returned.
C14_TimerDisarmed ==
    (pc = "responded" /\ branch = "done") => timer # "armed"

\* C15: an invocation that returns from the timer clause has requested the
\* termination of the child it started: no timeout outcome is returned
\* without a call of Kill on that child.
C15_TimeoutKills ==
    (pc = "responded" /\ (branch = "timer" \/ err = ErrTimeout)) =>
        /\ started
        /\ spawns = 1
        /\ killed \in {"ok", "failed"}
        /\ child # "running"

\* the timer fired while the child was running: the child was killed and
\* the timeout outcome returned
C15_Witness ==
    /\ pc = "responded"
    /\ branch = "timer"
    /\ err = ErrTimeout
    /\ killed = "ok"
    /\ child = "signaled"
    /\ wait_pc = "waiting"

\* C16: in each invocation exactly one of the two select clauses is run,
\* exactly once, also when the timer has fired and the completion is in the
\* channel; and the timer clause does not collect the child's exit code, so
\* the exit_code it returns is 0.
C16_SingleRace ==
    /\ clauses <= 1
    /\ clauses = 1 <=> branch \in {"timer", "done"}
    /\ pc \in {"responded", "panicked"} /\ calls > 0 => clauses = 1
    /\ pc = "select" => clauses = 0
    /\ pc = "responded" /\ branch = "timer" => r.exit_code = 0

\* both events were ready, the timer clause was run: the completion of a
\* child that exited with code 1 stays in the channel and exit_code is 0
C16_Witness ==
    /\ pc = "responded"
    /\ branch = "timer"
    /\ clauses = 1
    /\ timer = "fired"
    /\ done = << ExitError(WaitStatus(TRUE, 1)) >>
    /\ r.exit_code = 0

\* C17: when the timer fires and the kill of the child fails, the error
\* PWVCLICMD returns is still the timeout error and the request is answered
\* 424.
C17_KillFailureKeepsTimeout ==
    (pc = "responded" /\ killed = "failed") =>
        /\ err = ErrTimeout
        /\ status_code = StatusFailedDependency
        /\ result.error = [tag |-> "notrun", err |-> ErrTimeout]

\* the timer clause ran after Wait had reaped the child: Kill failed
C17_Witness ==
    /\ pc = "responded"
    /\ branch = "timer"
    /\ killed = "failed"
    /\ child = "exited"
    /\ wait_pc = "finished"
    /\ status_code = StatusFailedDependency

\* C18: status 200 is written only for a request whose invocation outcome
\* has ok = true; it never coincides with a FAILED audit line.
C18_OkOnlyWhen200 ==
    (pc = "responded" /\ status_code = StatusOK) =>
        /\ r.ok
        /\ log[Len(log)].verdict = "SUCCESS"

\* C19: the calling task never reads out_buf and err_buf while something
\* can still write to them.
C19_NoRacyRead == ~raced


\* C20: the wait goroutine never blocks for ever on its send: when the timer
\* clause was taken and nobody receives from done, once the child has
\* terminated the send completes and the goroutine ends; a goroutine at its
\* send always finds room in the channel.
C20_WaitTaskEnds ==
    /\ [](wait_pc = "sending" => Len(done) < DoneCap)
    /\ (branch = "timer" /\ child \in {"exited", "signaled"})
           ~> (wait_pc = "finished")

\* the timer clause was taken, the killed child terminated and the wait
\* goroutine has ended, its value left in the channel
C20_Witness ==
    /\ pc = "responded"
    /\ branch = "timer"
    /\ killed = "ok"
    /\ child = "signaled"
    /\ wait_pc = "finished"
    /\ Len(done) = 1

\* C10: for every process-level outcome and every order of the timer and
\* completion events the handler does not panic, and once it has responded
\* it has written exactly one JSON response with status 200, 400 or 424.
C10_AlwaysResponds ==
    /\ pc # "panicked"
    /\ pc = "responded" =>
          /\ responses = 1
          /\ status_code \in {StatusOK, StatusBadRequest, StatusFailedDependency}

====
